---- MODULE Spec2Model ----
(***************************************************************************)
(* Model of auth.go: the SOCKS5 authenticators (NoAuth, UserPwdAuth) and   *)
(* the in-memory credential store (MemoryStore).                           *)
(*                                                                         *)
(* Strings and byte slices are sequences of byte values.  A byte value is  *)
(* a number 0..MaxByte; the length fields of the handshake are bytes, so   *)
(* MaxByte is also the longest username/password a handshake can declare.  *)
(***************************************************************************)
EXTENDS Integers, Sequences, FiniteSets, TLC

\* ------------------------------------------------------------------ bounds
MaxByte == 1
MaxIn == 5
NThreads == 2

Bytes == 0..MaxByte

\* All byte strings of length 0..n.
RECURSIVE StringsUpTo(_)
StringsUpTo(n) ==
    IF n = 0 THEN {<<>>}
    ELSE LET S == StringsUpTo(n - 1)
         IN S \cup {Append(s, b) : s \in {t \in S : Len(t) = n - 1}, b \in Bytes}

\* The contents readSide may hold when Authenticate is called.
Streams == StringsUpTo(MaxIn)

\* Usernames and passwords the administrator passes to the store.
Names == {<<>>, <<1>>}
Passwords == {<<>>, <<1>>}

\* Values the server-side secret may have been constructed with.
Secrets == {<<>>, <<7>>}

\* ------------------------------------------------------------ constants
Version5 == 5
NO_AUTHENTICATION_REQUIRED == 0

\* ---------------------------------------------------------------- errors
Err(kind, name) == [kind |-> kind, username |-> name]
Nil == Err("nil", <<>>)
EOF == Err("EOF", <<>>)
ErrUnexpectedEOF == Err("ErrUnexpectedEOF", <<>>)
\* The error a failing writeSide returns from Write.
ErrWrite == Err("ErrWrite", <<>>)
UserNotExist(username) == Err("UserNotExist", username)
\* fmt.Errorf("user %s has bad password", username)
BadPassword(username) == Err("BadPassword", username)

\* ----------------------------------------------------------------- state
VARIABLES
    Users,        \* MemoryStore.Users: username -> stored bytes
    algoSecret,   \* MemoryStore.algoSecret
    \* one Authenticate call
    variant,      \* "none" (no call in progress), "NoAuth" or "UserPwd"
    pc,           \* position of the call
    in0,          \* content of readSide when the call started
    in,           \* content of readSide not yet consumed
    ulen, uname, plen, passwd,  \* locals of ReadUserPwd
    verr,         \* what Validate returned (err at line 47)
    werr,         \* what out.Write returned (err1 at line 50, err at 28/59)
    wcalls,       \* the arguments of the out.Write calls, in order
    out,          \* the bytes writeSide received
    events,       \* the ReadAtLeast / Validate / Write calls, in order
    ret,          \* the value Authenticate returned
    \* observation of the store's callers
    hist,         \* per username: the last Set and whether a Del removed it
    lastOp,       \* the most recent store call and its result
    prevSet,      \* per username: the password that the last Set replaced
    \* concurrent callers of the store
    mu,           \* MemoryStore.mu: 0 when free, else the caller holding it
    tpc,          \* per caller: its position in Set, Del or Validate
    call,         \* per caller: the method called and its arguments
    res,          \* per caller: the error the method returns
    absUsers,     \* the mapping after the calls so far, run one at a time
    absRes        \* per caller: the result of its call in that sequential run

storeVars == <<Users, algoSecret>>
authVars == <<variant, pc, in0, in, ulen, uname, plen, passwd, verr, werr,
              wcalls, out, events, ret>>
obsVars == <<hist, lastOp>>
concVars == <<mu, tpc, call, res, absUsers, absRes>>
vars == <<Users, algoSecret, variant, pc, in0, in, ulen, uname, plen, passwd,
          verr, werr, wcalls, out, events, ret, hist, lastOp, prevSet,
          mu, tpc, call, res, absUsers, absRes>>

\* ------------------------------------------------------------ MemoryStore
\* The embedded hash.Hash is never written to, so the "current hash" that
\* Sum appends is the digest of the empty input, one fixed byte string.
CurrentHash == <<8, 9>>

\* hash.Hash.Sum(b): appends the current hash to b and returns the result.
HashSumDigestOnly(b) == CurrentHash

HashSum(b) == b \o CurrentHash

\* build.WriteString(password + m.algoSecret); m.Hash.Sum(build.Bytes())
Crypt(password) == HashSum(password \o algoSecret)

\* MemoryStore.Set: the mapping after the call (the call returns nil).
MemSetAppends(users, username, password) ==
    [k \in DOMAIN users \cup {username} |->
        IF k = username
        THEN (IF k \in DOMAIN users THEN users[k] ELSE <<>>)
                 \o Crypt(password)
        ELSE users[k]]

MemSetKeepsExisting(users, username, password) ==
    [k \in DOMAIN users \cup {username} |->
        IF k \in DOMAIN users THEN users[k] ELSE Crypt(password)]

MemSet(users, username, password) ==
    [k \in DOMAIN users \cup {username} |->
        IF k = username THEN Crypt(password) ELSE users[k]]

\* MemoryStore.Del: the error returned and the mapping after the call.
MemDelKeepsEntry(users, username) ==
    IF username \notin DOMAIN users
    THEN [err |-> UserNotExist(username), users |-> users]
    ELSE [err |-> Nil, users |-> users]

MemDelClearsAll(users, username) ==
    IF username \notin DOMAIN users
    THEN [err |-> UserNotExist(username), users |-> users]
    ELSE [err |-> Nil, users |-> <<>>]

MemDel(users, username) ==
    IF username \notin DOMAIN users
    THEN [err |-> UserNotExist(username), users |-> users]
    ELSE [err |-> Nil,
          users |-> [k \in DOMAIN users \ {username} |-> users[k]]]

\* MemoryStore.Validate: the error returned.
MemValidateNoSecret(users, username, password) ==
    IF username \notin DOMAIN users THEN UserNotExist(username)
    ELSE IF HashSum(password) # users[username] THEN BadPassword(username)
    ELSE Nil

MemValidate(users, username, password) ==
    IF username \notin DOMAIN users THEN UserNotExist(username)
    ELSE IF Crypt(password) # users[username] THEN BadPassword(username)
    ELSE Nil

\* ------------------------------------------------------------------- Init
\* The goroutines that call the store concurrently.
Threads == 1..NThreads

NoCall == [op |-> "none", username |-> <<>>, password |-> <<>>]

NoOp == [op |-> "none", username |-> <<>>, password |-> <<>>, err |-> Nil,
         prior |-> [status |-> "never", password |-> <<>>]]

AuthIdle ==
    /\ variant = "none" /\ pc = "idle"
    /\ in0 = <<>> /\ in = <<>>
    /\ ulen = <<>> /\ uname = <<>> /\ plen = <<>> /\ passwd = <<>>
    /\ verr = Nil /\ werr = Nil
    /\ wcalls = <<>> /\ out = <<>> /\ events = <<>>
    /\ ret = Nil

Init ==
    /\ Users = <<>>
    /\ algoSecret \in Secrets
    /\ AuthIdle
    /\ hist = [u \in Names |-> [status |-> "never", password |-> <<>>]]
    /\ lastOp = NoOp
    /\ prevSet = [u \in Names |-> [has |-> FALSE, password |-> <<>>]]
    /\ mu = 0
    /\ tpc = [t \in Threads |-> "idle"]
    /\ call = [t \in Threads |-> NoCall]
    /\ res = [t \in Threads |-> Nil]
    /\ absUsers = <<>>
    /\ absRes = [t \in Threads |-> Nil]

\* ------------------------------------------- calls of the store's methods
\* m.Set(username, password)
Set(username, password) ==
    /\ Users' = MemSet(Users, username, password)
    /\ lastOp' = [op |-> "Set", username |-> username, password |-> password,
                  err |-> Nil, prior |-> hist[username]]
    /\ hist' = [hist EXCEPT ![username] =
                    [status |-> "set", password |-> password]]
    /\ prevSet' = [prevSet EXCEPT ![username] =
                    IF hist[username].status = "set"
                    THEN [has |-> TRUE, password |-> hist[username].password]
                    ELSE [has |-> FALSE, password |-> <<>>]]
    /\ UNCHANGED <<algoSecret, authVars, concVars>>

\* m.Del(username)
Del(username) ==
    LET r == MemDel(Users, username) IN
    /\ Users' = r.users
    /\ lastOp' = [op |-> "Del", username |-> username, password |-> <<>>,
                  err |-> r.err, prior |-> hist[username]]
    /\ hist' = IF r.err = Nil
               THEN [hist EXCEPT ![username].status = "deleted"]
               ELSE hist
    /\ UNCHANGED <<algoSecret, authVars, prevSet,
                   concVars>>

\* m.Validate(username, password)
Validate(username, password) ==
    /\ lastOp' = [op |-> "Validate", username |-> username,
                  password |-> password,
                  err |-> MemValidate(Users, username, password),
                  prior |-> hist[username]]
    /\ UNCHANGED <<Users, algoSecret, authVars, hist, prevSet,
                   concVars>>

Next ==
    \/ \E u \in Names, p \in Passwords : Set(u, p)
    \/ \E u \in Names : Del(u)
    \/ \E u \in Names, p \in Passwords : Validate(u, p)

Spec == Init /\ [][Next]_vars

\* ------------------------------------------------------------ Authenticate
\* io.ReadAtLeast(in, buf, min) with len(buf) = min: buf after the call (it
\* was zero-filled by make), what is left of the stream, and the error.
ReadAtLeastLenient(stream, min) ==
    LET n == IF Len(stream) >= min THEN min ELSE Len(stream) IN
    [buf |-> SubSeq(stream, 1, n) \o [i \in 1..(min - n) |-> 0],
     rest |-> SubSeq(stream, n + 1, Len(stream)),
     err |-> Nil]

ReadAtLeast(stream, min) ==
    LET n == IF Len(stream) >= min THEN min ELSE Len(stream) IN
    [buf |-> SubSeq(stream, 1, n) \o [i \in 1..(min - n) |-> 0],
     rest |-> SubSeq(stream, n + 1, Len(stream)),
     err |-> IF n >= min THEN Nil
             ELSE IF n > 0 THEN ErrUnexpectedEOF
             ELSE EOF]

\* reply := []byte{Version5, NO_AUTHENTICATION_REQUIRED}
NoAuthReplyMethod2 == <<Version5, 2>>

NoAuthReply == <<Version5, NO_AUTHENTICATION_REQUIRED>>

\* reply := []byte{Version5, 1}
FailReplyZero == <<Version5, 0>>

FailReply == <<Version5, 1>>

\* reply := []byte{Version5, 0}
SuccessReplyOne == <<Version5, 1>>

SuccessReply == <<Version5, 0>>

\* What Authenticate returns after the failure reply: err is Validate's
\* error, err1 the error of out.Write.
FailReturnErr1(err, err1) == err1

FailReturn(err, err1) == IF err1 # Nil THEN err ELSE err

\* Where control goes after the failure reply was written.
AfterFailReplyFallThrough == "reply_ok"

AfterFailReply == "done"

\* out.Write(reply): writeSide either takes all of reply, or fails after
\* taking fewer bytes than len(reply).
Write(reply) ==
    /\ wcalls' = Append(wcalls, reply)
    /\ events' = Append(events, "write")
    /\ \E ok \in BOOLEAN, n \in 0..(Len(reply) - 1) :
          IF ok
          THEN out' = out \o reply /\ werr' = Nil
          ELSE out' = out \o SubSeq(reply, 1, n) /\ werr' = ErrWrite

\* The session layer calls Authenticate of one of the two variants with a
\* readSide holding stream.
Call(v, stream) ==
    /\ pc = "idle"
    /\ variant' = v
    /\ pc' = IF v = "NoAuth" THEN "noauth_write" ELSE "read_ulen"
    /\ in0' = stream /\ in' = stream
    /\ UNCHANGED <<ulen, uname, plen, passwd, verr, werr, wcalls, out,
                   events, ret, storeVars, obsVars, prevSet,
                   concVars>>

\* NoAuth.Authenticate
NoAuthWrite ==
    /\ pc = "noauth_write"
    /\ Write(NoAuthReply)
    /\ ret' = werr'
    /\ pc' = "done"
    /\ UNCHANGED <<variant, in0, in, ulen, uname, plen, passwd, verr,
                   storeVars, obsVars, prevSet,
                   concVars>>

\* ReadUserPwd: ulen := make([]byte, 2); io.ReadAtLeast(in, ulen, 2)
ReadUlen ==
    /\ pc = "read_ulen"
    /\ LET r == ReadAtLeast(in, 2) IN
        /\ in' = r.rest
        /\ ulen' = r.buf
        /\ events' = Append(events, "read")
        /\ IF r.err # Nil
           THEN ret' = r.err /\ pc' = "done"
           ELSE ret' = ret /\ pc' = "read_uname"
    /\ UNCHANGED <<variant, in0, uname, plen, passwd, verr, werr, wcalls,
                   out, storeVars, obsVars, prevSet,
                   concVars>>

\* The username length ReadUserPwd takes from the two-byte buffer: ulen[1],
\* its second byte.
UlenValueFirstByte(buf) == buf[1]

UlenValue(buf) == buf[2]

\* ReadUserPwd: uname := make([]byte, ulen[1]); io.ReadAtLeast(in, uname, ..)
ReadUname ==
    /\ pc = "read_uname"
    /\ LET r == ReadAtLeast(in, UlenValue(ulen)) IN
        /\ in' = r.rest
        /\ uname' = r.buf
        /\ events' = Append(events, "read")
        /\ IF r.err # Nil
           THEN ret' = r.err /\ pc' = "done"
           ELSE ret' = ret /\ pc' = "read_plen"
    /\ UNCHANGED <<variant, in0, ulen, plen, passwd, verr, werr, wcalls,
                   out, storeVars, obsVars, prevSet,
                   concVars>>

\* ReadUserPwd: plen := make([]byte, 1); io.ReadAtLeast(in, plen, 1)
ReadPlen ==
    /\ pc = "read_plen"
    /\ LET r == ReadAtLeast(in, 1) IN
        /\ in' = r.rest
        /\ plen' = r.buf
        /\ events' = Append(events, "read")
        /\ IF r.err # Nil
           THEN ret' = r.err /\ pc' = "done"
           ELSE ret' = ret /\ pc' = "read_passwd"
    /\ UNCHANGED <<variant, in0, ulen, uname, passwd, verr, werr, wcalls,
                   out, storeVars, obsVars, prevSet,
                   concVars>>

\* ReadUserPwd: passwd := make([]byte, plen[0]); io.ReadAtLeast(in, passwd, ..)
ReadPasswd ==
    /\ pc = "read_passwd"
    /\ LET r == ReadAtLeast(in, plen[1]) IN
        /\ in' = r.rest
        /\ passwd' = r.buf
        /\ events' = Append(events, "read")
        /\ IF r.err # Nil
           THEN ret' = r.err /\ pc' = "done"
           ELSE ret' = ret /\ pc' = "validate"
    /\ UNCHANGED <<variant, in0, ulen, uname, plen, verr, werr, wcalls,
                   out, storeVars, obsVars, prevSet,
                   concVars>>

\* Authenticate: err = u.Validate(string(uname), string(passwd))
CallValidate ==
    /\ pc = "validate"
    /\ verr' = MemValidate(Users, uname, passwd)
    /\ events' = Append(events, "validate")
    /\ pc' = IF verr' # Nil THEN "reply_fail" ELSE "reply_ok"
    /\ UNCHANGED <<variant, in0, in, ulen, uname, plen, passwd, werr,
                   wcalls, out, ret, storeVars, obsVars, prevSet,
                   concVars>>

\* Authenticate: the branch taken when Validate returned an error
ReplyFail ==
    /\ pc = "reply_fail"
    /\ Write(FailReply)
    /\ ret' = FailReturn(verr, werr')
    /\ pc' = AfterFailReply
    /\ UNCHANGED <<variant, in0, in, ulen, uname, plen, passwd, verr,
                   storeVars, obsVars, prevSet,
                   concVars>>

\* Authenticate: authentication successful, send the reply
ReplyOk ==
    /\ pc = "reply_ok"
    /\ Write(SuccessReply)
    /\ ret' = werr'
    /\ pc' = "done"
    /\ UNCHANGED <<variant, in0, in, ulen, uname, plen, passwd, verr,
                   storeVars, obsVars, prevSet,
                   concVars>>

\* Authenticate has returned; the session layer may call again.
Return ==
    /\ pc = "done"
    /\ variant' = "none" /\ pc' = "idle"
    /\ in0' = <<>> /\ in' = <<>>
    /\ ulen' = <<>> /\ uname' = <<>> /\ plen' = <<>> /\ passwd' = <<>>
    /\ verr' = Nil /\ werr' = Nil
    /\ wcalls' = <<>> /\ out' = <<>> /\ events' = <<>>
    /\ ret' = Nil
    /\ UNCHANGED <<storeVars, obsVars, prevSet,
                   concVars>>

\* The administrator changes the store while connections authenticate.
AdminSet(username, password) ==
    /\ Users' = MemSet(Users, username, password)
    /\ UNCHANGED <<algoSecret, authVars, obsVars, prevSet,
                   concVars>>

AdminDel(username) ==
    /\ username \in DOMAIN Users
    /\ Users' = MemDel(Users, username).users
    /\ UNCHANGED <<algoSecret, authVars, obsVars, prevSet,
                   concVars>>

NextAuth ==
    \/ \E v \in {"NoAuth", "UserPwd"}, s \in Streams : Call(v, s)
    \/ NoAuthWrite
    \/ ReadUlen
    \/ ReadUname
    \/ ReadPlen
    \/ ReadPasswd
    \/ CallValidate
    \/ ReplyFail
    \/ ReplyOk
    \/ Return
    \/ \E u \in Names, p \in Passwords : AdminSet(u, p)
    \/ \E u \in Names : AdminDel(u)

SpecAuth == Init /\ [][NextAuth]_vars

\* ------------------------------------- concurrent callers of MemoryStore
\* A caller inside Set, Del or Validate between m.mu.Lock() returning and
\* the deferred m.mu.Unlock().
CriticalPcs == {"set_store", "del_check", "del_delete", "val_check",
                "val_compare", "unlock"}

InCS(t) == tpc[t] \in CriticalPcs

\* m.mu.Lock() returns only when no caller holds the mutex.
CanLockAlways == TRUE

CanLock == mu = 0

\* Another caller is between its Lock and Unlock: an access of the Go map
\* by t is then unsynchronised.
Racing(t) == \E s \in Threads \ {t} : InCS(s) /\ tpc[s] # "unlock"

\* m.Users[username] for a key that may be absent (a nil slice).
MapGet(users, username) ==
    IF username \in DOMAIN users THEN users[username] ELSE <<>>

\* Where Del goes when the username is absent: return UserNotExist, the
\* deferred Unlock runs.
AfterMissingNoUnlock == "returned"

AfterMissing == "unlock"

\* A goroutine calls one of the three methods.
Begin(t, op, username, password) ==
    /\ tpc[t] = "idle"
    /\ tpc' = [tpc EXCEPT ![t] = "lock"]
    /\ call' = [call EXCEPT ![t] =
                  [op |-> op, username |-> username, password |-> password]]
    /\ UNCHANGED <<mu, res, absUsers, absRes, storeVars, authVars, obsVars,
                   prevSet>>

\* m.mu.Lock(); defer m.mu.Unlock().  The calls take effect, in the
\* one-at-a-time run, in the order in which they get the lock.
Lock(t) ==
    /\ tpc[t] = "lock"
    /\ CanLock
    /\ mu' = t
    /\ tpc' = [tpc EXCEPT ![t] =
                 CASE call[t].op = "Set" -> "set_store"
                   [] call[t].op = "Del" -> "del_check"
                   [] call[t].op = "Validate" -> "val_check"]
    /\ absUsers' =
         CASE call[t].op = "Set" ->
                  MemSet(absUsers, call[t].username, call[t].password)
           [] call[t].op = "Del" -> MemDel(absUsers, call[t].username).users
           [] call[t].op = "Validate" -> absUsers
    /\ absRes' = [absRes EXCEPT ![t] =
         CASE call[t].op = "Set" -> Nil
           [] call[t].op = "Del" -> MemDel(absUsers, call[t].username).err
           [] call[t].op = "Validate" ->
                  MemValidate(absUsers, call[t].username, call[t].password)]
    /\ UNCHANGED <<call, res, storeVars, authVars, obsVars, prevSet>>

\* Set: cryptPasswd := m.Hash.Sum(...); m.Users[username] = cryptPasswd;
\* return nil.  An unsynchronised map write may be lost.
SetStore(t) ==
    /\ tpc[t] = "set_store"
    /\ Users' \in
         IF Racing(t)
         THEN {MemSet(Users, call[t].username, call[t].password), Users}
         ELSE {MemSet(Users, call[t].username, call[t].password)}
    /\ res' = [res EXCEPT ![t] = Nil]
    /\ tpc' = [tpc EXCEPT ![t] = "unlock"]
    /\ UNCHANGED <<algoSecret, mu, call, absUsers, absRes, authVars, obsVars,
                   prevSet>>

\* Del: if _, ok := m.Users[username]; !ok { return UserNotExist{...} }
DelCheck(t) ==
    /\ tpc[t] = "del_check"
    /\ IF call[t].username \notin DOMAIN Users
       THEN /\ res' = [res EXCEPT ![t] = UserNotExist(call[t].username)]
            /\ tpc' = [tpc EXCEPT ![t] = AfterMissing]
       ELSE /\ res' = res
            /\ tpc' = [tpc EXCEPT ![t] = "del_delete"]
    /\ UNCHANGED <<mu, call, absUsers, absRes, storeVars, authVars, obsVars,
                   prevSet>>

\* Del: delete(m.Users, username); return nil
DelDelete(t) ==
    /\ tpc[t] = "del_delete"
    /\ Users' \in
         IF Racing(t)
         THEN {[k \in DOMAIN Users \ {call[t].username} |-> Users[k]], Users}
         ELSE {[k \in DOMAIN Users \ {call[t].username} |-> Users[k]]}
    /\ res' = [res EXCEPT ![t] = Nil]
    /\ tpc' = [tpc EXCEPT ![t] = "unlock"]
    /\ UNCHANGED <<algoSecret, mu, call, absUsers, absRes, authVars, obsVars,
                   prevSet>>

\* Validate: if _, ok := m.Users[username]; !ok { return UserNotExist{...} }
ValCheck(t) ==
    /\ tpc[t] = "val_check"
    /\ IF call[t].username \notin DOMAIN Users
       THEN /\ res' = [res EXCEPT ![t] = UserNotExist(call[t].username)]
            /\ tpc' = [tpc EXCEPT ![t] = "unlock"]
       ELSE /\ res' = res
            /\ tpc' = [tpc EXCEPT ![t] = "val_compare"]
    /\ UNCHANGED <<mu, call, absUsers, absRes, storeVars, authVars, obsVars,
                   prevSet>>

\* Validate: cryptPasswd := m.Hash.Sum(...);
\* if !bytes.Equal(cryptPasswd, m.Users[username]) { return fmt.Errorf(...) }
\* return nil
ValCompare(t) ==
    /\ tpc[t] = "val_compare"
    /\ res' = [res EXCEPT ![t] =
                 IF Crypt(call[t].password) # MapGet(Users, call[t].username)
                 THEN BadPassword(call[t].username)
                 ELSE Nil]
    /\ tpc' = [tpc EXCEPT ![t] = "unlock"]
    /\ UNCHANGED <<mu, call, absUsers, absRes, storeVars, authVars, obsVars,
                   prevSet>>

\* The deferred m.mu.Unlock() runs and the method returns res[t].
Unlock(t) ==
    /\ tpc[t] = "unlock"
    /\ mu' = 0
    /\ tpc' = [tpc EXCEPT ![t] = "returned"]
    /\ UNCHANGED <<call, res, absUsers, absRes, storeVars, authVars, obsVars,
                   prevSet>>

\* The caller has taken the result and may call again.
Finish(t) ==
    /\ tpc[t] = "returned"
    /\ tpc' = [tpc EXCEPT ![t] = "idle"]
    /\ call' = [call EXCEPT ![t] = NoCall]
    /\ res' = [res EXCEPT ![t] = Nil]
    /\ absRes' = [absRes EXCEPT ![t] = Nil]
    /\ UNCHANGED <<mu, absUsers, storeVars, authVars, obsVars, prevSet>>

NextConc ==
    \/ \E t \in Threads, u \in Names, p \in Passwords : Begin(t, "Set", u, p)
    \/ \E t \in Threads, u \in Names : Begin(t, "Del", u, <<>>)
    \/ \E t \in Threads, u \in Names, p \in Passwords :
          Begin(t, "Validate", u, p)
    \/ \E t \in Threads : Lock(t)
    \/ \E t \in Threads : SetStore(t)
    \/ \E t \in Threads : DelCheck(t)
    \/ \E t \in Threads : DelDelete(t)
    \/ \E t \in Threads : ValCheck(t)
    \/ \E t \in Threads : ValCompare(t)
    \/ \E t \in Threads : Unlock(t)
    \/ \E t \in Threads : Finish(t)

SpecConc == Init /\ [][NextConc]_vars

\* ----------------------- N concurrent Sets, then N concurrent Validates
\* Caller t sets and later validates its own username.
UserOf(t) == <<t>>

\* Every caller's Set has returned (or it has gone on to its Validate).
AllSetsReturned ==
    \A s \in Threads :
        \/ call[s].op = "Set" /\ tpc[s] = "returned"
        \/ call[s].op = "Validate"

\* Caller t calls Set(UserOf(t), password).
StartSet(t, password) == Begin(t, "Set", UserOf(t), password)

\* Once all the Sets have returned, caller t calls Validate with the
\* password it set.
StartValidate(t) ==
    /\ tpc[t] = "returned"
    /\ call[t].op = "Set"
    /\ AllSetsReturned
    /\ tpc' = [tpc EXCEPT ![t] = "lock"]
    /\ call' = [call EXCEPT ![t].op = "Validate"]
    /\ UNCHANGED <<mu, res, absUsers, absRes, storeVars, authVars, obsVars,
                   prevSet>>

NextSets ==
    \/ \E t \in Threads, p \in Passwords : StartSet(t, p)
    \/ \E t \in Threads : StartValidate(t)
    \/ \E t \in Threads : Lock(t)
    \/ \E t \in Threads : SetStore(t)
    \/ \E t \in Threads : ValCheck(t)
    \/ \E t \in Threads : ValCompare(t)
    \/ \E t \in Threads : Unlock(t)

SpecSets == Init /\ [][NextSets]_vars

\* --------------------- store calls and Authenticate calls side by side
\* The readSide contents used where the store's callers are observed too: a
\* whole handshake for username <<1>>, password <<1>>; one for an unknown
\* username; one with empty username and password; two short ones.
FrameStreams == {<<1, 1, 1, 1, 1>>, <<1, 1, 0, 1, 1>>, <<1, 0, 0>>,
                 <<1, 1>>, <<>>}

NextFrame ==
    \/ \E u \in Names, p \in Passwords : Set(u, p)
    \/ \E u \in Names : Del(u)
    \/ \E u \in Names, p \in Passwords : Validate(u, p)
    \/ \E v \in {"NoAuth", "UserPwd"}, s \in FrameStreams : Call(v, s)
    \/ NoAuthWrite
    \/ ReadUlen
    \/ ReadUname
    \/ ReadPlen
    \/ ReadPasswd
    \/ CallValidate
    \/ ReplyFail
    \/ ReplyOk
    \/ Return

SpecFrame == Init /\ [][NextFrame]_vars

\* ------------------------------------------- callers under fair scheduling
\* The calls made where progress is checked: they reach every exit path of
\* the three methods (nil, UserNotExist, bad password).
LiveCalls == {[op |-> "Set", username |-> <<1>>, password |-> <<1>>],
              [op |-> "Del", username |-> <<1>>, password |-> <<>>],
              [op |-> "Validate", username |-> <<1>>, password |-> <<1>>],
              [op |-> "Validate", username |-> <<1>>, password |-> <<>>]}

\* The steps of caller t that need no one else: the method body and the
\* deferred Unlock.
Body(t) ==
    \/ SetStore(t)
    \/ DelCheck(t)
    \/ DelDelete(t)
    \/ ValCheck(t)
    \/ ValCompare(t)
    \/ Unlock(t)

NextLive ==
    \/ \E t \in Threads, c \in LiveCalls :
          Begin(t, c.op, c.username, c.password)
    \/ \E t \in Threads : Lock(t)
    \/ \E t \in Threads : Body(t)
    \/ \E t \in Threads : Finish(t)

\* The Go scheduler runs every runnable goroutine, and sync.Mutex hands the
\* mutex to a waiter that keeps failing to get it (starvation mode), so a
\* caller waiting in Lock while the mutex is free again and again gets it.
Fairness ==
    \A t \in Threads : WF_vars(Body(t)) /\ SF_vars(Lock(t))

SpecLive == Init /\ [][NextLive]_vars /\ Fairness

\* ================================================================ claims
\* ------------------------------------------------ helpers of the claims
Done == pc = "done"

Count(e) == Cardinality({i \in 1..Len(events) : events[i] = e})

\* The stream s holds a whole handshake as ReadUserPwd frames it: two bytes
\* (the second is ULEN), ULEN bytes, PLEN, PLEN bytes.
HandshakeComplete(s) ==
    /\ Len(s) >= 2
    /\ Len(s) >= 3 + s[2]
    /\ Len(s) >= 3 + s[2] + s[3 + s[2]]

\* The stream s declares a zero-length username or a zero-length password.
DeclaresZero(s) ==
    /\ Len(s) >= 2
    /\ \/ s[2] = 0
       \/ Len(s) >= 3 + s[2] /\ s[3 + s[2]] = 0

Ord(e) == CASE e = "read" -> 1 [] e = "validate" -> 2 [] e = "write" -> 3

\* C1: a Validate(username, password) call made while the most recent Set
\* on username was Set(username, password) and no Del(username) succeeded
\* since returns no error, whatever calls were made before.
C1_ValidateAfterSet ==
    (/\ lastOp.op = "Validate"
     /\ lastOp.prior.status = "set"
     /\ lastOp.prior.password = lastOp.password)
    => lastOp.err = Nil

\* C1 witness: such a Validate call returned nil under a non-empty secret,
\* while another username has been set too.
C1_Witness ==
    /\ lastOp.op = "Validate"
    /\ lastOp.prior.status = "set"
    /\ lastOp.prior.password = lastOp.password
    /\ lastOp.err = Nil
    /\ algoSecret # <<>>
    /\ \E u \in Names : u # lastOp.username /\ hist[u].status = "set"

\* C2: a Validate or Del call on a username that was never passed to Set,
\* or whose entry a successful Del removed since its last Set, returns
\* UserNotExist carrying that username (so Set(u, p); Del(u);
\* Validate(u, p) ends in UserNotExist).
C2_AbsentUserNotExist ==
    (/\ lastOp.op \in {"Validate", "Del"}
     /\ lastOp.prior.status \in {"never", "deleted"})
    => lastOp.err = UserNotExist(lastOp.username)

\* C2 witness: Validate(u, p) returned UserNotExist{u} after Set(u, p) and a
\* successful Del(u).
C2_Witness ==
    /\ lastOp.op = "Validate"
    /\ lastOp.prior.status = "deleted"
    /\ lastOp.prior.password = lastOp.password
    /\ lastOp.err = UserNotExist(lastOp.username)

\* C3: a Validate(username, wrong) call made while username holds the entry
\* of Set(username, correct), wrong # correct, returns the bad-password
\* error: not nil, and not UserNotExist.
C3_WrongPasswordRejected ==
    (/\ lastOp.op = "Validate"
     /\ lastOp.prior.status = "set"
     /\ lastOp.prior.password # lastOp.password)
    => /\ lastOp.err = BadPassword(lastOp.username)
       /\ lastOp.err # Nil
       /\ lastOp.err.kind # "UserNotExist"

\* C3 witness: Validate with a wrong password returned the bad-password
\* error.
C3_Witness ==
    /\ lastOp.op = "Validate"
    /\ lastOp.prior.status = "set"
    /\ lastOp.prior.password # lastOp.password
    /\ lastOp.err = BadPassword(lastOp.username)

\* C4 as stated: whenever Validate accepted the parsed pair, the finished
\* call has written exactly [V, 0x00] and returned success (taken on
\* handshakes with non-empty username and password).
C4_Original ==
    (/\ Done /\ variant = "UserPwd" /\ Count("validate") = 1 /\ verr = Nil
     /\ ~DeclaresZero(in0))
    => /\ wcalls = <<(<<Version5, 0>>)>>
       /\ out = <<Version5, 0>>
       /\ ret = Nil

\* C4 amended: whenever Validate accepted the parsed pair, the call makes
\* exactly one Write, of the 2 bytes [V, 0x00]; it returns success when that
\* Write succeeds (writeSide then holds exactly [V, 0x00]) and the Write's
\* error when it fails.
C4_SuccessReply ==
    (Done /\ variant = "UserPwd" /\ Count("validate") = 1 /\ verr = Nil)
    => /\ wcalls = <<(<<Version5, 0>>)>>
       /\ werr = Nil => (out = <<Version5, 0>> /\ ret = Nil)
       /\ werr # Nil => ret = werr

\* C4 witness: a call with a validated pair finished with [V, 0x00] on
\* writeSide and success.
C4_Witness ==
    /\ Done /\ variant = "UserPwd" /\ Count("validate") = 1 /\ verr = Nil
    /\ uname # <<>> /\ passwd # <<>>
    /\ out = <<Version5, 0>>
    /\ ret = Nil

\* C5: whenever Validate rejected the parsed pair (UserNotExist or bad
\* password), the call makes exactly one Write, of the 2 bytes [V, 0x01],
\* the same for both reasons, and returns the error Validate returned.
C5_FailureReply ==
    (Done /\ variant = "UserPwd" /\ Count("validate") = 1 /\ verr # Nil)
    => /\ verr.kind \in {"UserNotExist", "BadPassword"}
       /\ wcalls = <<(<<Version5, 1>>)>>
       /\ werr = Nil => out = <<Version5, 1>>
       /\ ret = verr

\* C5 witness: a call whose pair was rejected for a bad password finished
\* with [V, 0x01] on writeSide and Validate's error returned.
C5_Witness ==
    /\ Done /\ variant = "UserPwd" /\ Count("validate") = 1
    /\ verr.kind = "BadPassword"
    /\ out = <<Version5, 1>>
    /\ ret = verr

\* C6 as stated: for every content of readSide the no-auth call reads
\* nothing, makes exactly one Write of [V, 0x00] and returns success.
C6_Original ==
    (Done /\ variant = "NoAuth")
    => /\ in = in0 /\ Count("read") = 0
       /\ wcalls = <<(<<Version5, 0>>)>>
       /\ ret = Nil

\* C6 amended: for every content of readSide the no-auth call reads
\* nothing and makes exactly one Write, of the 2 bytes [V, 0x00]; it returns
\* success when that Write succeeds and the Write's error when it fails.
C6_NoAuth ==
    (Done /\ variant = "NoAuth")
    => /\ in = in0 /\ Count("read") = 0 /\ Count("validate") = 0
       /\ wcalls = <<(<<Version5, 0>>)>>
       /\ werr = Nil => (out = <<Version5, 0>> /\ ret = Nil)
       /\ werr # Nil => ret = werr

\* C6 witness: a no-auth call on a readSide holding a whole handshake
\* finished with success, readSide untouched.
C6_Witness ==
    /\ Done /\ variant = "NoAuth"
    /\ HandshakeComplete(in0) /\ in = in0
    /\ out = <<Version5, 0>>
    /\ ret = Nil

\* C7: when readSide ends before the whole handshake, the call returns a
\* transport failure (EOF or ErrUnexpectedEOF), never calls Validate and
\* writes nothing.
C7_ShortRead ==
    (Done /\ variant = "UserPwd" /\ ~HandshakeComplete(in0))
    => /\ ret.kind \in {"EOF", "ErrUnexpectedEOF"}
       /\ Count("validate") = 0
       /\ Count("write") = 0 /\ wcalls = <<>> /\ out = <<>>

\* C7 witness: readSide held only the two-byte username-length field
\* declaring a non-empty username; the call returned EOF.
C7_Witness ==
    /\ Done /\ variant = "UserPwd"
    /\ Len(in0) = 2 /\ in0[2] > 0
    /\ ret = EOF
    /\ out = <<>>

\* C8: in every Authenticate call, when the Write of the reply fails the
\* call returns that Write's error, for the success reply and for the
\* failure reply alike (taken on no-auth calls and on handshakes with
\* non-empty username and password).
C8_WriteFailureSurfaced ==
    (Done /\ werr # Nil /\ (variant = "UserPwd" => ~DeclaresZero(in0)))
    => ret = werr

\* C9: a handshake declaring a zero-length username or password is
\* rejected as a protocol failure: Validate is not called and the error
\* returned is neither nil nor UserNotExist nor the bad-password error
\* (taken on calls in which no Write failed).
C9_ZeroLengthRejected ==
    (Done /\ variant = "UserPwd" /\ DeclaresZero(in0) /\ werr = Nil)
    => /\ Count("validate") = 0
       /\ ret.kind \notin {"nil", "UserNotExist", "BadPassword"}

\* C10: within one username/password call the reads come first, then at
\* most one Validate, then at most one Write; Validate is called only after
\* the four reads of the handshake and a Write only after Validate; and a
\* finished call whose handshake was whole made exactly one Validate and
\* exactly one Write.
C10_Sequential ==
    variant = "UserPwd"
    => /\ \A i, j \in 1..Len(events) :
              i < j => Ord(events[i]) <= Ord(events[j])
       /\ Count("validate") <= 1
       /\ Count("write") <= 1
       /\ Len(wcalls) = Count("write")
       /\ Count("validate") = 1 => Count("read") = 4
       /\ Count("write") = 1 => Count("validate") = 1
       /\ (Done /\ HandshakeComplete(in0))
              => (Count("validate") = 1 /\ Count("write") = 1)

\* C10 witness: a finished call with the whole sequence read, read, read,
\* read, validate, write, on the failure branch.
C10_Witness ==
    /\ Done /\ variant = "UserPwd"
    /\ events = <<"read", "read", "read", "read", "validate", "write">>
    /\ verr # Nil

\* C11: Set, Del and Validate hold the one mutex from before their first
\* access of the mapping until they return, on every exit path: at most one
\* caller is inside its critical section, a caller that is at an access of
\* the mapping (or still before its deferred Unlock) is the holder of the
\* mutex, and a caller that is not inside a method body (idle, waiting in
\* Lock, or returned) does not hold it.
C11_MutualExclusion ==
    /\ Cardinality({t \in Threads : InCS(t)}) <= 1
    /\ \A t \in Threads : InCS(t) => mu = t
    /\ \A t \in Threads : ~InCS(t) => mu # t
    /\ mu # 0 => mu \in Threads /\ InCS(mu)

\* C11 witness: a caller on an error exit path (UserNotExist) still holds
\* the mutex before its deferred Unlock while another caller waits in Lock.
C11_Witness ==
    \E t, s \in Threads :
        /\ t # s
        /\ tpc[t] = "unlock" /\ res[t].kind = "UserNotExist" /\ mu = t
        /\ tpc[s] = "lock"

\* C12: with N callers that each Set a username of their own and, once all
\* the Sets have returned, Validate it with the password they set: when all
\* Sets have returned every one of the N entries is in the mapping with the
\* value of its own Set, and every Validate that has returned succeeded.
C12_NoLostUpdate ==
    /\ AllSetsReturned =>
          \A t \in Threads :
              /\ UserOf(t) \in DOMAIN Users
              /\ Users[UserOf(t)] = Crypt(call[t].password)
    /\ \A t \in Threads :
          (call[t].op = "Validate" /\ tpc[t] \in {"unlock", "returned"})
              => res[t] = Nil

\* C12 witness: all callers have returned from their Validate with nil, and
\* they did not all use the same password.
C12_Witness ==
    /\ \A t \in Threads :
          call[t].op = "Validate" /\ tpc[t] = "returned" /\ res[t] = Nil
    /\ \E t, s \in Threads : call[t].password # call[s].password

\* C13: the concurrent calls are linearizable, with the acquisition of the
\* mutex as the linearization point (it lies between the call and its
\* return, so calls that do not overlap keep their order): every result
\* returned equals the result of the call in the run that makes the calls
\* one at a time in the order of lock acquisition, and whenever no caller
\* is inside a method body the mapping equals the mapping of that run.
C13_Linearizable ==
    /\ \A t \in Threads :
          tpc[t] \in {"unlock", "returned"} => res[t] = absRes[t]
    /\ (\A t \in Threads : ~InCS(t)) => Users = absUsers

\* C13 witness: a Validate returned the bad-password error while a Del of
\* the same username, called in the meantime, waits for the mutex.
C13_Witness ==
    \E t, s \in Threads :
        /\ t # s
        /\ call[t].op = "Validate" /\ tpc[t] = "unlock"
        /\ res[t].kind = "BadPassword"
        /\ call[s].op = "Del" /\ call[s].username = call[t].username
        /\ tpc[s] = "lock"

\* C14: Set is idempotent: a Set(u, p) call made right after a Set(u, p)
\* call leaves the mapping as the first call left it, and both return nil.
C14_SetIdempotent ==
    [][(/\ lastOp.op = "Set" /\ lastOp'.op = "Set"
        /\ lastOp'.username = lastOp.username
        /\ lastOp'.password = lastOp.password)
       => (Users' = Users /\ lastOp.err = Nil /\ lastOp'.err = Nil)]_vars

\* C14 witness: a Set(u, p) call returned nil when the Set on u before it
\* was Set(u, p) too.
C14_Witness ==
    /\ lastOp.op = "Set" /\ lastOp.err = Nil
    /\ lastOp.prior = [status |-> "set", password |-> lastOp.password]
    /\ lastOp.password # <<>>
    /\ Users[lastOp.username] = Crypt(lastOp.password)

\* s is a prefix of t.
IsPrefix(s, t) == Len(s) <= Len(t) /\ SubSeq(t, 1, Len(s)) = s

\* C15: no stored value contains the plaintext: the value stored for a
\* username last set with a non-empty password p is not p ++ secret nor a
\* byte string with p ++ secret as a prefix.
C15_NoPlaintext ==
    \A u \in DOMAIN Users :
        (u \in Names /\ hist[u].status = "set" /\ hist[u].password # <<>>)
            => ~IsPrefix(hist[u].password \o algoSecret, Users[u])

\* C16: once ReadUserPwd has returned the pair, it has consumed exactly
\* 2 + U + 1 + P bytes of readSide, U the second byte and P the byte after
\* the username; the username is the U bytes after the second byte and the
\* password the P bytes after the password-length byte, whatever the first
\* byte is; these are the values Validate gets (its error carries that
\* username) and the rest of readSide is left unread.
C16_ExactConsumption ==
    (variant = "UserPwd" /\ (pc = "validate" \/ Count("validate") = 1))
    => /\ HandshakeComplete(in0)
       /\ LET U == in0[2]
              P == in0[3 + U]
          IN /\ Len(in0) - Len(in) = 2 + U + 1 + P
             /\ in = SubSeq(in0, 4 + U + P, Len(in0))
             /\ uname = SubSeq(in0, 3, 2 + U)
             /\ passwd = SubSeq(in0, 4 + U, 3 + U + P)
             /\ verr # Nil => verr.username = SubSeq(in0, 3, 2 + U)

\* C16 witness: a finished call whose readSide began with a byte 0, that
\* parsed a non-empty username and left a byte of readSide unread after the
\* handshake.
C16_Witness ==
    /\ Done /\ variant = "UserPwd" /\ Count("validate") = 1
    /\ in0[1] = 0
    /\ uname # <<>>
    /\ in # <<>>

\* C17: Set replaces the previous secret: a Validate made while the last
\* two Sets on its username were Set(u, p1) then Set(u, p2), p1 # p2, with
\* no Del since, returns nil for p2 and the bad-password error for p1; and
\* in every state at most one password validates for a username.
C17_SetReplaces ==
    /\ (/\ lastOp.op = "Validate"
        /\ lastOp.prior.status = "set"
        /\ prevSet[lastOp.username].has
        /\ prevSet[lastOp.username].password # lastOp.prior.password)
       => /\ lastOp.password = lastOp.prior.password => lastOp.err = Nil
          /\ lastOp.password = prevSet[lastOp.username].password
                 => lastOp.err = BadPassword(lastOp.username)
    /\ \A u \in Names :
          Cardinality({p \in Passwords : MemValidate(Users, u, p) = Nil}) <= 1

\* C17 witness: Validate(u, p1) returned the bad-password error after
\* Set(u, p1) and Set(u, p2).
C17_Witness ==
    /\ lastOp.op = "Validate"
    /\ lastOp.prior.status = "set"
    /\ prevSet[lastOp.username].has
    /\ prevSet[lastOp.username].password # lastOp.prior.password
    /\ lastOp.password = prevSet[lastOp.username].password
    /\ lastOp.err = BadPassword(lastOp.username)

\* The entry of username u in the mapping.
Entry(users, u) == IF u \in DOMAIN users THEN <<users[u]>> ELSE <<>>

\* C18: a step changes the entry of a username u only if it is a Set(u, .)
\* call or a Del(u) call returning nil, and it is no step of Authenticate;
\* so Validate, a failing Del and every step of either Authenticate leave
\* the whole mapping unchanged, and Set(u, .) and Del(u) leave the entries
\* of the other usernames unchanged.
C18_Frame ==
    [][/\ \A u \in Names \cup DOMAIN Users \cup DOMAIN Users' :
             Entry(Users', u) # Entry(Users, u)
                 => /\ authVars' = authVars
                    /\ lastOp'.username = u
                    /\ \/ lastOp'.op = "Set"
                       \/ lastOp'.op = "Del" /\ lastOp'.err = Nil
       /\ authVars' # authVars => Users' = Users]_vars

\* C18 witness: a Del has failed with UserNotExist while the other username
\* has an entry and a username/password Authenticate has finished with a
\* validated pair.
C18_Witness ==
    /\ lastOp.op = "Del" /\ lastOp.err.kind = "UserNotExist"
    /\ \E u \in DOMAIN Users : u # lastOp.username
    /\ Done /\ variant = "UserPwd" /\ Count("validate") = 1 /\ verr = Nil

\* C19: under fair scheduling every caller that has started Set, Del or
\* Validate gets the mutex, returns, and no longer holds the mutex.
C19_Completes ==
    \A t \in Threads :
        (tpc[t] = "lock") ~> (tpc[t] = "returned" /\ mu # t)

\* C19 witness: a Validate has returned the bad-password error and released
\* the mutex, which another caller now holds.
C19_Witness ==
    \E t, s \in Threads :
        /\ t # s
        /\ tpc[t] = "returned" /\ res[t].kind = "BadPassword"
        /\ mu = s /\ InCS(s)

====
